---- MODULE Spec2Model ----
(***************************************************************************)
(* Model of server.go: an in-memory fish catalogue served over HTTP.       *)
(* Every request runs in its own goroutine (a slot); the handlers are      *)
(* split at their accesses to the shared map h.db, to the mutex embedded   *)
(* in fishesHandler and to the wall clock.  Go strings that the code       *)
(* splits or formats are sequences of one-character strings.               *)
(***************************************************************************)
EXTENDS Integers, Sequences, FiniteSets, TLC

\* ---------------------------------------------------------------- bounds
NumSlots == 2
MaxRequests == 3
MaxTicks == 1
ClockStart == 9

Slots == 1..NumSlots
NoSlot == 0

\* ------------------------------------------------------------- constants
StatusOK == 200
StatusFound == 302
StatusBadRequest == 400
StatusUnauthorized == 401
StatusNotFound == 404
StatusMethodNotAllowed == 405
StatusUnsupportedMediaType == 415
StatusInternalServerError == 500

FishesPath == <<"/", "f", "i", "s", "h", "e", "s">>
AdminPath == <<"/", "a", "d", "m", "i", "n">>
RandomSeg == <<"r", "a", "n", "d", "o", "m">>
Salmon == <<"S", "a", "l", "m", "o", "n">>
River == <<"r", "i", "v", "e", "r">>
Trout == <<"T", "r", "o", "u", "t">>
Carp == <<"C", "a", "r", "p">>

\* ------------------------------------------------------------ the record
FishKeys == {"id", "name", "environment", "max_length"}

Fish(id, name, environment, maxLength) ==
    [ID |-> id, Name |-> name, Environment |-> environment, MaxLength |-> maxLength]

\* var fish Fish: the zero value of the struct
ZeroFish == Fish(<<>>, <<>>, <<>>, 0)

\* ------------------------------------------------------------------ JSON
JStr(s) == [t |-> "string", s |-> s, n |-> 0]
JNum(n) == [t |-> "number", s |-> <<>>, n |-> n]

\* The type of the struct field a key decodes into.
FieldType(k) == IF k = "max_length" THEN "number" ELSE "string"

\* json.Unmarshal(bodyBytes, &fish) into a zero Fish.  A document that is not
\* valid JSON is rejected before anything is stored in the target; a member of
\* the wrong JSON type is skipped, the other members are still decoded, and the
\* type error is returned.
StrMember(m, k) ==
    IF k \in DOMAIN m /\ m[k].t = "string" THEN m[k].s ELSE <<>>

NumMember(m, k) ==
    IF k \in DOMAIN m /\ m[k].t = "number" THEN m[k].n ELSE 0

Unmarshal(body) ==
    IF ~body.valid
    THEN [err |-> "syntax", fish |-> ZeroFish]
    ELSE LET m == body.members
             bad == {k \in DOMAIN m \cap FishKeys : m[k].t # FieldType(k)}
         IN [err |-> IF bad = {} THEN "none" ELSE "type",
             fish |-> Fish(StrMember(m, "id"), StrMember(m, "name"),
                           StrMember(m, "environment"), NumMember(m, "max_length"))]

\* json.Marshal(fish): every field is tagged omitempty, so a zero field is left out.
FieldJSON(f, k) ==
    CASE k = "id" -> JStr(f.ID)
      [] k = "name" -> JStr(f.Name)
      [] k = "environment" -> JStr(f.Environment)
      [] OTHER -> JNum(f.MaxLength)

IsEmptyField(f, k) ==
    CASE k = "id" -> f.ID = <<>>
      [] k = "name" -> f.Name = <<>>
      [] k = "environment" -> f.Environment = <<>>
      [] OTHER -> f.MaxLength = 0

MarshalFish(f) ==
    [t |-> "object",
     v |-> [k \in {x \in FishKeys : ~IsEmptyField(f, x)} |-> FieldJSON(f, k)]]

\* A Go slice: the nil slice and the empty non-nil slice are different values.
NilSlice == [isNil |-> TRUE, elems |-> <<>>]

SliceAppend(s, x) == [isNil |-> FALSE, elems |-> Append(s.elems, x)]

\* json.Marshal(fishes): a nil slice encodes as null, any other slice as an array.
MarshalFishes(s) ==
    IF s.isNil
    THEN [t |-> "null", v |-> <<>>]
    ELSE [t |-> "array", v |-> [i \in 1..Len(s.elems) |-> MarshalFish(s.elems[i])]]

TextBody(what) == [t |-> "text", v |-> what]

\* --------------------------------------------------------------- strings
Digits == <<"0", "1", "2", "3", "4", "5", "6", "7", "8", "9">>

\* fmt.Sprintf("%d", n) for n >= 0
RECURSIVE FormatInt(_)
FormatInt(n) ==
    IF n < 10
    THEN <<Digits[n + 1]>>
    ELSE FormatInt(n \div 10) \o <<Digits[(n % 10) + 1]>>

\* strings.Split(s, sep) for a one-character separator
RECURSIVE Split(_, _)
Split(s, sep) ==
    LET at == {i \in 1..Len(s) : s[i] = sep}
    IN IF at = {}
       THEN <<s>>
       ELSE LET i == CHOOSE j \in at : \A k \in at : j <= k
            IN <<SubSeq(s, 1, i - 1)>> \o Split(SubSeq(s, i + 1, Len(s)), sep)

\* r.URL.String() of a server request: the escaped path, then "?" and the raw
\* query when there is one.
URLString(u) ==
    IF u.query = <<>> THEN u.path ELSE u.path \o <<"?">> \o u.query

HasPrefix(s, p) == Len(s) >= Len(p) /\ SubSeq(s, 1, Len(p)) = p

\* The patterns main registers on the default mux: "/admin" and "/fishes" match
\* exactly, "/fishes/" matches every path below it.
Route(path) ==
    CASE path = AdminPath -> "admin"
      [] path = FishesPath -> "fishes"
      [] HasPrefix(path, FishesPath \o <<"/">>) -> "getFish"
      [] OTHER -> "none"

\* -------------------------------------------------------------- requests
\* r.BasicAuth(): the credentials of the Authorization header, ok = FALSE
\* when the request has none.
NoAuth == [ok |-> FALSE, user |-> "", pass |-> ""]

BasicAuth(user, pass) == [ok |-> TRUE, user |-> user, pass |-> pass]

EmptyBody == [valid |-> FALSE, members |-> [k \in {} |-> JNum(0)]]

\* {"name":"Salmon","environment":"river","max_length":90}
SalmonBody ==
    [valid |-> TRUE,
     members |-> [k \in {"name", "environment", "max_length"} |->
                    CASE k = "name" -> JStr(Salmon)
                      [] k = "environment" -> JStr(River)
                      [] OTHER -> JNum(90)]]

\* {"id":"7","name":"Trout"}: the caller supplies an identifier
TroutBody ==
    [valid |-> TRUE,
     members |-> [k \in {"id", "name"} |->
                    IF k = "id" THEN JStr(<<"7">>) ELSE JStr(Trout)]]

\* {"name":"Salmon"  (cut short: not valid JSON)
TruncatedBody == [valid |-> FALSE, members |-> [k \in {"name"} |-> JStr(Salmon)]]

\* {"name":"Carp","max_length":"long"}: valid JSON, max_length of the wrong type
MistypedBody ==
    [valid |-> TRUE,
     members |-> [k \in {"name", "max_length"} |->
                    IF k = "name" THEN JStr(Carp) ELSE JStr(<<"l", "o", "n", "g">>)]]

Request(method, path, query, ct, body, readErr, auth) ==
    [method |-> method, url |-> [path |-> path, query |-> query], ct |-> ct,
     body |-> body, readErr |-> readErr, auth |-> auth]

NoRequest == Request("", <<>>, <<>>, "", EmptyBody, FALSE, NoAuth)

Get(path, query) == Request("GET", path, query, "", EmptyBody, FALSE, NoAuth)

Post(ct, body, readErr) == Request("POST", FishesPath, <<>>, ct, body, readErr, NoAuth)

ClockValues == ClockStart..(ClockStart + MaxTicks)

IdPath(n) == FishesPath \o <<"/">> \o FormatInt(n)

AQuery == <<"a", "=", "1">>

FishesRequests ==
    {Get(FishesPath, <<>>),
     Request("DELETE", FishesPath, <<>>, "", EmptyBody, FALSE, NoAuth)}
    \cup {Post("application/json", b, FALSE) :
            b \in {SalmonBody, TroutBody, TruncatedBody, MistypedBody}}
    \cup {Post("text/plain", SalmonBody, FALSE), Post("", TruncatedBody, FALSE),
          Post("application/json", EmptyBody, TRUE), Post("text/plain", EmptyBody, TRUE)}

GetFishRequests ==
    {Get(FishesPath \o <<"/">>, <<>>),
     Get(IdPath(ClockStart) \o <<"/">> \o FormatInt(ClockStart), <<>>),
     Get(FishesPath \o <<"/">> \o RandomSeg, <<>>),
     Get(FishesPath \o <<"/">> \o RandomSeg, AQuery),
     Get(FishesPath \o <<"/", "x">>, <<>>),
     Get(IdPath(ClockStart), AQuery),
     Request("DELETE", IdPath(ClockStart), <<>>, "", EmptyBody, FALSE, NoAuth)}
    \cup {Get(IdPath(n), <<>>) : n \in ClockValues}

Secret == "s3cret"

AdminRequests ==
    {Request("GET", AdminPath, <<>>, "", EmptyBody, FALSE, a) :
        a \in {NoAuth, BasicAuth("admin", Secret), BasicAuth("admin", "guess"),
               BasicAuth("admin", ""), BasicAuth("root", Secret)}}

OtherRequests == {Get(<<"/">>, <<>>)}

Requests == FishesRequests \cup GetFishRequests \cup AdminRequests \cup OtherRequests

\* ------------------------------------------------------------- responses
\* http.ResponseWriter: status 0 until the header is written.
NoResponse == [status |-> 0, ctype |-> "", location |-> <<>>, body |-> <<>>]

\* w.Header().Add: without effect on the wire once the header is written
AddContentType(w, v) == IF w.status = 0 THEN [w EXCEPT !.ctype = v] ELSE w

AddLocation(w, v) == IF w.status = 0 THEN [w EXCEPT !.location = v] ELSE w

\* w.WriteHeader: the first call decides the status
WriteHeader(w, code) == IF w.status = 0 THEN [w EXCEPT !.status = code] ELSE w

\* w.Write: writes the header with 200 when none was written
Write(w, chunk) ==
    [WriteHeader(w, StatusOK) EXCEPT !.body = Append(w.body, chunk)]

\* The server finishes the response when the handler returns: 200 and no body
\* when the handler wrote nothing.
Finish(w) == WriteHeader(w, StatusOK)

\* ----------------------------------------------------------------- state
VARIABLES
    server,     \* "starting", "listening" or "panicked"
    env,        \* ADMIN_PASSWORD in the environment
    password,   \* adminPortal.password
    db,         \* fishesHandler.db
    mu,         \* the slot holding fishesHandler's mutex, NoSlot when unlocked
    now,        \* time.Now().UnixNano()
    served,     \* requests accepted so far
    pc,         \* where each slot's handler stands
    req,        \* each slot's *http.Request
    resp,       \* each slot's http.ResponseWriter
    fishes,     \* getAllFishes: fishes
    ids,        \* getRandomCoaster: ids
    fish,       \* addNewFish: fish; getFish: foundFish
    parts,      \* getFish: parts
    jsonBytes,  \* getAllFishes, getFish: jsonBytes
    inserted,   \* history: the records written to h.db, in the order written
    acked,      \* history: the stored records whose POST was answered 200
    seen        \* history: acked as it was when the slot's GET /fishes arrived

shared == <<db, mu, now>>
process == <<server, env, password>>
locals == <<fishes, ids, fish, parts, jsonBytes>>
history == <<inserted, acked, seen>>
vars == <<server, env, password, db, mu, now, served, pc, req, resp,
          fishes, ids, fish, parts, jsonBytes, inserted, acked, seen>>

NoJSON == [t |-> "none", v |-> <<>>]

\* map[string]Fish{}
EmptyMap == [k \in {} |-> ZeroFish]

Init ==
    /\ server = "starting"
    /\ env \in {"", Secret}
    /\ password = ""
    /\ db = EmptyMap
    /\ mu = NoSlot
    /\ now = ClockStart
    /\ served = 0
    /\ pc = [r \in Slots |-> "idle"]
    /\ req = [r \in Slots |-> NoRequest]
    /\ resp = [r \in Slots |-> NoResponse]
    /\ fishes = [r \in Slots |-> NilSlice]
    /\ ids = [r \in Slots |-> <<>>]
    /\ fish = [r \in Slots |-> ZeroFish]
    /\ parts = [r \in Slots |-> <<>>]
    /\ jsonBytes = [r \in Slots |-> NoJSON]
    /\ inserted = <<>>
    /\ acked = {}
    /\ seen = [r \in Slots |-> {}]

\* ------------------------------------------------------------ the store
\* h.db[id] = f
MapSet(m, id, f) ==
    [k \in DOMAIN m \cup {id} |-> IF k = id THEN f ELSE m[k]]

\* The orders in which a range over a map with these keys may visit them.
Orders(keys) ==
    {o \in [1..Cardinality(keys) -> keys] :
        \A i, j \in 1..Cardinality(keys) : i # j => o[i] # o[j]}

\* for _, fish := range h.db { fishes = append(fishes, fish) }, in visit order o
RECURSIVE AppendAll(_, _, _)
AppendAll(s, m, o) ==
    IF o = <<>> THEN s ELSE AppendAll(SliceAppend(s, m[Head(o)]), m, Tail(o))

\* ---------------------------------------------------------------- helpers
Goto(r, label) == pc' = [pc EXCEPT ![r] = label]

Respond(r, w) == resp' = [resp EXCEPT ![r] = w]

\* h.Lock(): blocks while another goroutine holds the mutex
Lock(r) == mu = NoSlot /\ mu' = r

\* h.Unlock()
Unlock(r) == mu' = NoSlot

\* ---------------------------------------------------------------- startup
\* main: newAdminPortal panics when ADMIN_PASSWORD is unset, else the handlers
\* are registered and the server listens.
main ==
    /\ server = "starting"
    /\ IF env = ""
       THEN server' = "panicked" /\ UNCHANGED password
       ELSE server' = "listening" /\ password' = env
    /\ UNCHANGED <<history, env, shared, served, pc, req, resp, locals>>

\* The wall clock advances.
Tick ==
    /\ now < ClockStart + MaxTicks
    /\ now' = now + 1
    /\ UNCHANGED <<history, process, db, mu, served, pc, req, resp, locals>>

\* The server accepts a request and the mux hands it to the handler registered
\* for its path.
Serve(r, q) ==
    /\ server = "listening"
    /\ pc[r] = "idle"
    /\ served < MaxRequests
    /\ served' = served + 1
    /\ req' = [req EXCEPT ![r] = q]
    /\ resp' = [resp EXCEPT ![r] = NoResponse]
    /\ Goto(r, Route(q.url.path))
    /\ seen' = [seen EXCEPT ![r] =
                  IF q.url.path = FishesPath /\ q.method = "GET" THEN acked ELSE {}]
    /\ UNCHANGED <<inserted, acked, process, shared, locals>>

\* The connection's goroutine is done with the request: its locals are gone.
Close(r) ==
    /\ pc[r] = "done"
    /\ Goto(r, "idle")
    /\ req' = [req EXCEPT ![r] = NoRequest]
    /\ resp' = [resp EXCEPT ![r] = NoResponse]
    /\ fishes' = [fishes EXCEPT ![r] = NilSlice]
    /\ ids' = [ids EXCEPT ![r] = <<>>]
    /\ fish' = [fish EXCEPT ![r] = ZeroFish]
    /\ parts' = [parts EXCEPT ![r] = <<>>]
    /\ jsonBytes' = [jsonBytes EXCEPT ![r] = NoJSON]
    /\ seen' = [seen EXCEPT ![r] = {}]
    /\ UNCHANGED <<inserted, acked, process, shared, served>>

\* ----------------------------------------------------------------- fishes
\* Mutant: the switch has no default, every method but GET creates.
fishesSwitchNoDefault(r) ==
    /\ pc[r] = "fishes"
    /\ IF req[r].method = "GET" THEN Goto(r, "all_lock") ELSE Goto(r, "add_read")
    /\ UNCHANGED resp
    /\ UNCHANGED <<history, process, shared, served, req, locals>>

\* fishesHandler.fishes: the switch on r.Method
fishesSwitch(r) ==
    /\ pc[r] = "fishes"
    /\ CASE req[r].method = "GET" -> Goto(r, "all_lock") /\ UNCHANGED resp
         [] req[r].method = "POST" -> Goto(r, "add_read") /\ UNCHANGED resp
         [] OTHER ->
              /\ Respond(r, Write(WriteHeader(resp[r], StatusMethodNotAllowed),
                                  TextBody("method not allowed")))
              /\ Goto(r, "done")
    /\ UNCHANGED <<history, process, shared, served, req, locals>>

\* ----------------------------------------------------------- getAllFishes
getAllFishesLock(r) ==
    /\ pc[r] = "all_lock"
    /\ Lock(r)
    /\ Goto(r, "all_range")
    /\ UNCHANGED <<history, process, db, now, served, req, resp, locals>>

\* Mutant: the loop stops one entry short.
getAllFishesRangeDropsLast(r) ==
    /\ pc[r] = "all_range"
    /\ \E o \in Orders(DOMAIN db) :
         fishes' = [fishes EXCEPT ![r] =
                      AppendAll(NilSlice, db, SubSeq(o, 1, Len(o) - 1))]
    /\ Goto(r, "all_unlock")
    /\ UNCHANGED <<history, process, shared, served, req, resp, ids, fish, parts, jsonBytes>>

getAllFishesRange(r) ==
    /\ pc[r] = "all_range"
    /\ \E o \in Orders(DOMAIN db) :
         fishes' = [fishes EXCEPT ![r] = AppendAll(NilSlice, db, o)]
    /\ Goto(r, "all_unlock")
    /\ UNCHANGED <<history, process, shared, served, req, resp, ids, fish, parts, jsonBytes>>

getAllFishesUnlock(r) ==
    /\ pc[r] = "all_unlock"
    /\ Unlock(r)
    /\ Goto(r, "all_marshal")
    /\ UNCHANGED <<history, process, db, now, served, req, resp, locals>>

\* json.Marshal(fishes): a slice of Fish always encodes, err is nil
getAllFishesMarshal(r) ==
    /\ pc[r] = "all_marshal"
    /\ jsonBytes' = [jsonBytes EXCEPT ![r] = MarshalFishes(fishes[r])]
    /\ Goto(r, "all_write")
    /\ UNCHANGED <<history, process, shared, served, req, resp, fishes, ids, fish, parts>>

getAllFishesWrite(r) ==
    /\ pc[r] = "all_write"
    /\ Respond(r, Write(WriteHeader(AddContentType(resp[r], "application/json"),
                                    StatusOK),
                        jsonBytes[r]))
    /\ Goto(r, "done")
    /\ UNCHANGED <<history, process, shared, served, req, locals>>

\* ------------------------------------------------------- getRandomCoaster
\* ids := make([]string, len(h.db)): the length is read before h.Lock()
getRandomCoasterMake(r) ==
    /\ pc[r] = "rnd_make"
    /\ ids' = [ids EXCEPT ![r] = [i \in 1..Cardinality(DOMAIN db) |-> <<>>]]
    /\ Goto(r, "rnd_lock")
    /\ UNCHANGED <<history, process, shared, served, req, resp, fishes, fish, parts, jsonBytes>>

getRandomCoasterLock(r) ==
    /\ pc[r] = "rnd_lock"
    /\ Lock(r)
    /\ Goto(r, "rnd_range")
    /\ UNCHANGED <<history, process, db, now, served, req, resp, locals>>

\* for id := range h.db { ids[i] = id; i++ }: an index past len(ids) panics,
\* with the mutex still locked; net/http recovers the panic and drops the
\* connection without a response.
getRandomCoasterRange(r) ==
    /\ pc[r] = "rnd_range"
    /\ IF Cardinality(DOMAIN db) > Len(ids[r])
       THEN Goto(r, "panicked") /\ UNCHANGED ids
       ELSE /\ \E o \in Orders(DOMAIN db) :
                 ids' = [ids EXCEPT ![r] =
                           [i \in 1..Len(ids[r]) |->
                              IF i <= Len(o) THEN o[i] ELSE ids[r][i]]]
            /\ Goto(r, "rnd_unlock")
    /\ UNCHANGED <<history, process, shared, served, req, resp, fishes, fish, parts, jsonBytes>>

getRandomCoasterUnlock(r) ==
    /\ pc[r] = "rnd_unlock"
    /\ Unlock(r)
    /\ Goto(r, "rnd_pick")
    /\ UNCHANGED <<history, process, db, now, served, req, resp, locals>>

\* Mutant: the emptiness test is off by one, a single record counts as none.
getRandomCoasterPickOffByOne(r) ==
    /\ pc[r] = "rnd_pick"
    /\ IF Len(ids[r]) <= 1
       THEN Respond(r, WriteHeader(resp[r], StatusNotFound))
       ELSE \E i \in 1..Len(ids[r]) :
              LET target == ids[r][i]
              IN Respond(r, WriteHeader(AddLocation(resp[r],
                                                    FishesPath \o <<"/">> \o target),
                                        StatusFound))
    /\ Goto(r, "done")
    /\ UNCHANGED <<history, process, shared, served, req, locals>>

\* rand.Intn(len(ids)) after rand.Seed(time.Now().UnixNano()): any index
getRandomCoasterPick(r) ==
    /\ pc[r] = "rnd_pick"
    /\ IF Len(ids[r]) = 0
       THEN Respond(r, WriteHeader(resp[r], StatusNotFound))
       ELSE \E i \in 1..Len(ids[r]) :
              LET target == ids[r][i]
              IN Respond(r, WriteHeader(AddLocation(resp[r],
                                                    FishesPath \o <<"/">> \o target),
                                        StatusFound))
    /\ Goto(r, "done")
    /\ UNCHANGED <<history, process, shared, served, req, locals>>

\* ---------------------------------------------------------------- getFish
\* Mutant: the length test is len(parts) < 3, longer paths are let through.
getFishSplitAtLeastThree(r) ==
    /\ pc[r] = "getFish"
    /\ LET p == Split(URLString(req[r].url), "/")
       IN /\ parts' = [parts EXCEPT ![r] = p]
          /\ IF Len(p) < 3
             THEN Respond(r, WriteHeader(resp[r], StatusNotFound)) /\ Goto(r, "done")
             ELSE IF p[3] = RandomSeg
                  THEN Goto(r, "rnd_make") /\ UNCHANGED resp
                  ELSE Goto(r, "get_lock") /\ UNCHANGED resp
    /\ UNCHANGED <<history, process, shared, served, req, fishes, ids, fish, jsonBytes>>

\* parts := strings.Split(r.URL.String(), "/"); parts[2] is parts[3] here
getFishSplit(r) ==
    /\ pc[r] = "getFish"
    /\ LET p == Split(URLString(req[r].url), "/")
       IN /\ parts' = [parts EXCEPT ![r] = p]
          /\ IF Len(p) # 3
             THEN Respond(r, WriteHeader(resp[r], StatusNotFound)) /\ Goto(r, "done")
             ELSE IF p[3] = RandomSeg
                  THEN Goto(r, "rnd_make") /\ UNCHANGED resp
                  ELSE Goto(r, "get_lock") /\ UNCHANGED resp
    /\ UNCHANGED <<history, process, shared, served, req, fishes, ids, fish, jsonBytes>>

getFishLock(r) ==
    /\ pc[r] = "get_lock"
    /\ Lock(r)
    /\ Goto(r, "get_lookup")
    /\ UNCHANGED <<history, process, db, now, served, req, resp, locals>>

\* Mutant: ok is ignored, a missing key yields the zero Fish and is served.
getFishLookupIgnoresOk(r) ==
    /\ pc[r] = "get_lookup"
    /\ fish' = [fish EXCEPT ![r] = IF parts[r][3] \in DOMAIN db
                                   THEN db[parts[r][3]]
                                   ELSE ZeroFish]
    /\ Goto(r, "get_marshal")
    /\ UNCHANGED resp
    /\ UNCHANGED <<history, process, shared, served, req, fishes, ids, parts, jsonBytes>>

\* Mutant: a lookup that misses leaves an empty record under the key.
getFishLookupInsertsOnMiss(r) ==
    /\ pc[r] = "get_lookup"
    /\ IF parts[r][3] \in DOMAIN db
       THEN /\ fish' = [fish EXCEPT ![r] = db[parts[r][3]]]
            /\ Goto(r, "get_marshal")
            /\ UNCHANGED <<resp, db>>
       ELSE /\ Respond(r, WriteHeader(resp[r], StatusNotFound))
            /\ Goto(r, "get_return")
            /\ db' = MapSet(db, parts[r][3], ZeroFish)
            /\ UNCHANGED fish
    /\ UNCHANGED <<history, process, mu, now, served, req, fishes, ids, parts, jsonBytes>>

\* foundFish, ok := h.db[parts[2]]
getFishLookup(r) ==
    /\ pc[r] = "get_lookup"
    /\ IF parts[r][3] \in DOMAIN db
       THEN /\ fish' = [fish EXCEPT ![r] = db[parts[r][3]]]
            /\ Goto(r, "get_marshal")
            /\ UNCHANGED resp
       ELSE /\ Respond(r, WriteHeader(resp[r], StatusNotFound))
            /\ Goto(r, "get_return")
            /\ UNCHANGED fish
    /\ UNCHANGED <<history, process, shared, served, req, fishes, ids, parts, jsonBytes>>

\* json.Marshal(foundFish): a Fish always encodes, err is nil
getFishMarshal(r) ==
    /\ pc[r] = "get_marshal"
    /\ jsonBytes' = [jsonBytes EXCEPT ![r] = MarshalFish(fish[r])]
    /\ Goto(r, "get_write")
    /\ UNCHANGED <<history, process, shared, served, req, resp, fishes, ids, fish, parts>>

getFishWrite(r) ==
    /\ pc[r] = "get_write"
    /\ Respond(r, Write(WriteHeader(AddContentType(resp[r], "application/json"),
                                    StatusOK),
                        jsonBytes[r]))
    /\ Goto(r, "get_return")
    /\ UNCHANGED <<history, process, shared, served, req, locals>>

\* the deferred h.Unlock() runs as getFish returns
getFishReturn(r) ==
    /\ pc[r] = "get_return"
    /\ Unlock(r)
    /\ Respond(r, Finish(resp[r]))
    /\ Goto(r, "done")
    /\ UNCHANGED <<history, process, db, now, served, req, locals>>

\* ------------------------------------------------------------- addNewFish
\* bodyBytes, err := ioutil.ReadAll(r.Body)
addNewFishRead(r) ==
    /\ pc[r] = "add_read"
    /\ IF req[r].readErr
       THEN /\ Respond(r, Write(WriteHeader(resp[r], StatusInternalServerError),
                                TextBody("read error")))
            /\ Goto(r, "done")
       ELSE Goto(r, "add_ctype") /\ UNCHANGED resp
    /\ UNCHANGED <<history, process, shared, served, req, locals>>

\* Mutant: a request without a content-type header is let through.
addNewFishContentTypeLenient(r) ==
    /\ pc[r] = "add_ctype"
    /\ IF req[r].ct \notin {"application/json", ""}
       THEN /\ Respond(r, Write(WriteHeader(resp[r], StatusUnsupportedMediaType),
                                TextBody("need content-type 'application/json'")))
            /\ Goto(r, "done")
       ELSE Goto(r, "add_unmarshal") /\ UNCHANGED resp
    /\ UNCHANGED <<history, process, shared, served, req, locals>>

\* ct := r.Header.Get("content-type")
addNewFishContentType(r) ==
    /\ pc[r] = "add_ctype"
    /\ IF req[r].ct # "application/json"
       THEN /\ Respond(r, Write(WriteHeader(resp[r], StatusUnsupportedMediaType),
                                TextBody("need content-type 'application/json'")))
            /\ Goto(r, "done")
       ELSE Goto(r, "add_unmarshal") /\ UNCHANGED resp
    /\ UNCHANGED <<history, process, shared, served, req, locals>>

\* err = json.Unmarshal(bodyBytes, &fish): the error branch writes the 400 and
\* has no return, so the handler goes on with whatever was decoded
addNewFishUnmarshal(r) ==
    /\ pc[r] = "add_unmarshal"
    /\ LET u == Unmarshal(req[r].body)
       IN /\ fish' = [fish EXCEPT ![r] = u.fish]
          /\ IF u.err # "none"
             THEN Respond(r, Write(WriteHeader(resp[r], StatusBadRequest),
                                   TextBody(u.err)))
             ELSE UNCHANGED resp
    /\ Goto(r, "add_id")
    /\ UNCHANGED <<history, process, shared, served, req, fishes, ids, parts, jsonBytes>>

\* Mutant: an identifier given by the caller is kept.
addNewFishIDKeepsGiven(r) ==
    /\ pc[r] = "add_id"
    /\ fish' = [fish EXCEPT ![r].ID =
                  IF fish[r].ID = <<>> THEN FormatInt(now) ELSE fish[r].ID]
    /\ Goto(r, "add_lock")
    /\ UNCHANGED <<history, process, shared, served, req, resp, fishes, ids, parts, jsonBytes>>

\* fish.ID = fmt.Sprintf("%d", time.Now().UnixNano())
addNewFishID(r) ==
    /\ pc[r] = "add_id"
    /\ fish' = [fish EXCEPT ![r].ID = FormatInt(now)]
    /\ Goto(r, "add_lock")
    /\ UNCHANGED <<history, process, shared, served, req, resp, fishes, ids, parts, jsonBytes>>

addNewFishLock(r) ==
    /\ pc[r] = "add_lock"
    /\ Lock(r)
    /\ Goto(r, "add_store")
    /\ UNCHANGED <<history, process, db, now, served, req, resp, locals>>

\* h.db[fish.ID] = fish
addNewFishStore(r) ==
    /\ pc[r] = "add_store"
    /\ db' = MapSet(db, fish[r].ID, fish[r])
    /\ inserted' = Append(inserted, fish[r])
    /\ Goto(r, "add_return")
    /\ UNCHANGED <<acked, seen, process, mu, now, served, req, resp, locals>>

\* the deferred h.Unlock() runs as addNewFish returns; nothing was written on
\* the success path, so the server answers 200
addNewFishReturn(r) ==
    /\ pc[r] = "add_return"
    /\ Unlock(r)
    /\ Respond(r, Finish(resp[r]))
    /\ acked' = IF Finish(resp[r]).status = StatusOK THEN acked \cup {fish[r]} ELSE acked
    /\ Goto(r, "done")
    /\ UNCHANGED <<inserted, seen, process, db, now, served, req, locals>>

\* ------------------------------------------------------------ adminPortal
\* Mutant: the user name is not compared.
adminHandlerAnyUser(r) ==
    /\ pc[r] = "admin"
    /\ LET a == req[r].auth
       IN IF ~a.ok \/ a.pass # password
          THEN Respond(r, Write(WriteHeader(resp[r], StatusUnauthorized),
                                TextBody("You do not have the right permission")))
          ELSE Respond(r, Write(resp[r], TextBody("Super secret admin portal")))
    /\ Goto(r, "done")
    /\ UNCHANGED <<history, process, shared, served, req, locals>>

\* adminPortal.handler
adminHandler(r) ==
    /\ pc[r] = "admin"
    /\ LET a == req[r].auth
       IN IF ~a.ok \/ a.user # "admin" \/ a.pass # password
          THEN Respond(r, Write(WriteHeader(resp[r], StatusUnauthorized),
                                TextBody("You do not have the right permission")))
          ELSE Respond(r, Write(resp[r], TextBody("Super secret admin portal")))
    /\ Goto(r, "done")
    /\ UNCHANGED <<history, process, shared, served, req, locals>>

\* No pattern matches: the mux answers with http.NotFound.
notFound(r) ==
    /\ pc[r] = "none"
    /\ Respond(r, Write(WriteHeader(resp[r], StatusNotFound),
                        TextBody("404 page not found")))
    /\ Goto(r, "done")
    /\ UNCHANGED <<history, process, shared, served, req, locals>>

\* ------------------------------------------------------------------- next
Next ==
    \/ main
    \/ Tick
    \/ \E r \in Slots, q \in Requests : Serve(r, q)
    \/ \E r \in Slots : Close(r)
    \/ \E r \in Slots : fishesSwitch(r)
    \/ \E r \in Slots : getAllFishesLock(r)
    \/ \E r \in Slots : getAllFishesRange(r)
    \/ \E r \in Slots : getAllFishesUnlock(r)
    \/ \E r \in Slots : getAllFishesMarshal(r)
    \/ \E r \in Slots : getAllFishesWrite(r)
    \/ \E r \in Slots : getRandomCoasterMake(r)
    \/ \E r \in Slots : getRandomCoasterLock(r)
    \/ \E r \in Slots : getRandomCoasterRange(r)
    \/ \E r \in Slots : getRandomCoasterUnlock(r)
    \/ \E r \in Slots : getRandomCoasterPick(r)
    \/ \E r \in Slots : getFishSplit(r)
    \/ \E r \in Slots : getFishLock(r)
    \/ \E r \in Slots : getFishLookup(r)
    \/ \E r \in Slots : getFishMarshal(r)
    \/ \E r \in Slots : getFishWrite(r)
    \/ \E r \in Slots : getFishReturn(r)
    \/ \E r \in Slots : addNewFishRead(r)
    \/ \E r \in Slots : addNewFishContentType(r)
    \/ \E r \in Slots : addNewFishUnmarshal(r)
    \/ \E r \in Slots : addNewFishID(r)
    \/ \E r \in Slots : addNewFishLock(r)
    \/ \E r \in Slots : addNewFishStore(r)
    \/ \E r \in Slots : addNewFishReturn(r)
    \/ \E r \in Slots : adminHandler(r)
    \/ \E r \in Slots : notFound(r)

Spec == Init /\ [][Next]_vars

\* ---------------------------------------------------------------- claims
Elems(s) == {s[i] : i \in 1..Len(s)}

IsPostFishes(q) == q.url.path = FishesPath /\ q.method = "POST"

IsGetFishes(q) == q.url.path = FishesPath /\ q.method = "GET"

\* The segment after "/fishes/" of a request routed to getFish.
Segment(q) == SubSeq(q.url.path, Len(FishesPath) + 2, Len(q.url.path))

SameFields(f, g) ==
    f.Name = g.Name /\ f.Environment = g.Environment /\ f.MaxLength = g.MaxLength

\* The record a JSON object of a response body decodes to.
Decoded(doc) == Unmarshal([valid |-> TRUE, members |-> doc.v]).fish

\* C1: once a GET /fishes has copied the map (it still holds the mutex, so every
\* insert made so far is complete), and every insert so far was a POST answered
\* 200, its list holds exactly the records inserted so far, one per insert, and
\* each of them is stored under the identifier it was given.
C1_ListIsEveryInsert ==
    \A r \in Slots :
        (pc[r] = "all_unlock" /\ Elems(inserted) \subseteq acked) =>
            /\ Len(fishes[r].elems) = Len(inserted)
            /\ Elems(fishes[r].elems) = Elems(inserted)
            /\ \A i \in 1..Len(inserted) :
                   /\ inserted[i].ID \in DOMAIN db
                   /\ db[inserted[i].ID] = inserted[i]

\* C2: when addNewFish is about to store its record, the record's identifier is
\* non-empty and is not yet a key of the store.
C2_IdentifierIsFresh ==
    \A r \in Slots :
        pc[r] = "add_store" => fish[r].ID # <<>> /\ fish[r].ID \notin DOMAIN db

DecodeFails(q) ==
    /\ IsPostFishes(q)
    /\ q.ct = "application/json"
    /\ ~q.readErr
    /\ Unmarshal(q.body).err # "none"

\* C3: a POST /fishes whose body fails to decode is answered 400 and no step of
\* its handler changes the store.
C3_DecodeFailureLeavesStore ==
    [][\A r \in Slots :
          DecodeFails(req[r]) =>
              /\ pc[r] = "done" => resp[r].status = StatusBadRequest
              /\ pc[r] = "add_store" => db' = db]_vars

WrongContentType(q) == IsPostFishes(q) /\ q.ct # "application/json"

BeforeDecoding == {"fishes", "add_read", "add_ctype", "done"}

IsGetRandom(q) ==
    q.url.path = FishesPath \o <<"/">> \o RandomSeg /\ q.url.query = <<>>

\* C5: the list getRandomCoaster copies under the mutex is the store's key set,
\* each key once; its answer is 404 exactly when that list is empty, and
\* otherwise 302 with Location /fishes/{id} for an id of the list that is a key
\* of the store (the only one when the list has one entry).
C5_RandomAnswer ==
    \A r \in Slots :
        IsGetRandom(req[r]) =>
            /\ pc[r] = "rnd_unlock" =>
                   /\ Elems(ids[r]) = DOMAIN db
                   /\ Len(ids[r]) = Cardinality(DOMAIN db)
            /\ pc[r] = "done" =>
                   /\ resp[r].status = StatusNotFound <=> ids[r] = <<>>
                   /\ resp[r].status # StatusNotFound =>
                          /\ resp[r].status = StatusFound
                          /\ \E id \in Elems(ids[r]) \cap DOMAIN db :
                                 resp[r].location = FishesPath \o <<"/">> \o id

C5_Witness ==
    \E r \in Slots :
        /\ IsGetRandom(req[r])
        /\ pc[r] = "done"
        /\ Len(ids[r]) = 1
        /\ Cardinality(DOMAIN db) = 1
        /\ resp[r].status = StatusFound
        /\ resp[r].location = FishesPath \o <<"/">> \o ids[r][1]

IsGetById(q) ==
    /\ q.method = "GET"
    /\ Route(q.url.path) = "getFish"
    /\ q.url.query = <<>>

\* The record written last under id, from the history of writes.
LastInserted(id) ==
    LET at == {i \in 1..Len(inserted) : inserted[i].ID = id}
    IN inserted[CHOOSE i \in at : \A j \in at : j <= i]

\* C6: when getFish has answered a GET /fishes/{id} (it still holds the mutex, so
\* the store is the one it looked in), the answer is 404 with no body when id
\* is not a key of the store, and 200 with a JSON object that decodes to the
\* record last written under id when it is.
C6_GetByIdAnswer ==
    \A r \in Slots :
        (pc[r] = "get_return" /\ IsGetById(req[r])) =>
            LET id == Segment(req[r])
            IN IF id \in DOMAIN db
               THEN /\ resp[r].status = StatusOK
                    /\ resp[r].ctype = "application/json"
                    /\ Len(resp[r].body) = 1
                    /\ resp[r].body[1].t = "object"
                    /\ Decoded(resp[r].body[1]) = LastInserted(id)
               ELSE /\ resp[r].status = StatusNotFound
                    /\ resp[r].body = <<>>

C6_Witness ==
    \E r \in Slots :
        /\ pc[r] = "get_return"
        /\ IsGetById(req[r])
        /\ resp[r].status = StatusOK
        /\ Len(inserted) = 2
        /\ inserted[1].ID = Segment(req[r])
        /\ inserted[2].ID = Segment(req[r])
        /\ inserted[1] # inserted[2]

\* C7: a POST /fishes with content-type application/json and a body that
\* decodes is answered 200, and the list copied by a GET /fishes that arrived
\* after that POST was answered holds a record with the posted name,
\* environment and max_length and a non-empty id.
C7_PostedRecordIsListed ==
    /\ \A r \in Slots :
           (/\ pc[r] = "done"
            /\ IsPostFishes(req[r])
            /\ req[r].ct = "application/json"
            /\ ~req[r].readErr
            /\ Unmarshal(req[r].body).err = "none") => resp[r].status = StatusOK
    /\ \A r \in Slots :
           pc[r] = "all_unlock" =>
               \A f \in seen[r] :
                   \E g \in Elems(fishes[r].elems) : SameFields(f, g) /\ g.ID # <<>>

\* C8: a GET /fishes that found the store empty is answered 200 with a body that
\* is the empty JSON array.
C8_EmptyStoreListsEmptyArray ==
    \A r \in Slots :
        (pc[r] = "done" /\ IsGetFishes(req[r]) /\ fishes[r].elems = <<>>) =>
            /\ resp[r].status = StatusOK
            /\ resp[r].body = <<[t |-> "array", v |-> <<>>]>>

\* C9: a GET routed to getFish whose path has no segment after /fishes/ or more
\* than one is answered 404, and a GET routed to getFish that is answered
\* anything else has a path that splits on "/" into exactly three components.
C9_MalformedPathIs404 ==
    \A r \in Slots :
        (pc[r] = "done" /\ req[r].method = "GET" /\ Route(req[r].url.path) = "getFish") =>
            /\ (Segment(req[r]) = <<>> \/ Len(Split(Segment(req[r]), "/")) > 1) =>
                   resp[r].status = StatusNotFound
            /\ resp[r].status # StatusNotFound =>
                   Len(Split(req[r].url.path, "/")) = 3

C9_Witness ==
    \E r \in Slots :
        /\ pc[r] = "done"
        /\ req[r].method = "GET"
        /\ Len(Split(req[r].url.path, "/")) = 4
        /\ Split(req[r].url.path, "/")[3] \in DOMAIN db
        /\ resp[r].status = StatusNotFound

\* C10: the server listens only with a non-empty password, the one of the
\* environment; a request to /admin is answered 200 with the static page when
\* it carries Basic credentials of user admin with that password, and 401 in
\* every other case.
C10_AdminGate ==
    /\ server = "listening" => password # "" /\ password = env
    /\ \A r \in Slots :
           (pc[r] = "done" /\ req[r].url.path = AdminPath) =>
               IF req[r].auth.ok /\ req[r].auth.user = "admin" /\ req[r].auth.pass = env
               THEN /\ resp[r].status = StatusOK
                    /\ resp[r].body = <<TextBody("Super secret admin portal")>>
               ELSE resp[r].status = StatusUnauthorized

C10_Witness ==
    \E r \in Slots :
        /\ pc[r] = "done"
        /\ req[r].url.path = AdminPath
        /\ req[r].auth = BasicAuth("admin", Secret)
        /\ resp[r].status = StatusOK

OtherMethodOnFishes(q) ==
    q.url.path = FishesPath /\ q.method \notin {"GET", "POST"}

\* C11: a request to /fishes with a method other than GET or POST is answered
\* 405 by the switch itself: its handler never gets to a step of getAllFishes
\* or of addNewFish, so it neither reads nor changes the store.
C11_OtherMethodIs405 ==
    \A r \in Slots :
        OtherMethodOnFishes(req[r]) =>
            /\ pc[r] \in {"fishes", "done"}
            /\ mu # r
            /\ pc[r] = "done" =>
                   /\ resp[r].status = StatusMethodNotAllowed
                   /\ resp[r].body = <<TextBody("method not allowed")>>

C11_Witness ==
    \E r \in Slots :
        /\ pc[r] = "done"
        /\ OtherMethodOnFishes(req[r])
        /\ resp[r].status = StatusMethodNotAllowed
        /\ db # EmptyMap

\* C12: the mutex is never held by a slot whose handler has returned or was
\* aborted by a panic.
C12_LockReleasedAtEnd ==
    \A r \in Slots : pc[r] \in {"idle", "done", "panicked"} => mu # r

LockWaits == {"all_lock", "rnd_lock", "get_lock", "add_lock"}

\* C13: every request is answered.  As a property of finite runs: no handler is
\* aborted by a panic, which ends it without a response, and no handler waits
\* for the mutex while the slot that holds it has been aborted and so will
\* never unlock it.
C13_EveryRequestIsAnswered ==
    \A r \in Slots :
        /\ pc[r] # "panicked"
        /\ (pc[r] \in LockWaits /\ mu # NoSlot) => pc[mu] # "panicked"

\* The steps that read or write h.db.
MapAccess == {"all_range", "rnd_make", "rnd_range", "get_lookup", "add_store"}

\* C14: a handler that is at a step reading or writing h.db (its entries or its
\* size) holds the mutex, and when getRandomCoaster copies the keys its list has
\* as many entries as the map has keys.
C14_MapAccessUnderLock ==
    \A r \in Slots :
        /\ pc[r] \in MapAccess => mu = r
        /\ pc[r] = "rnd_range" => Len(ids[r]) = Cardinality(DOMAIN db)

\* The steps that encode JSON or write the response.
Serializing ==
    {"all_marshal", "all_write", "get_marshal", "get_write", "rnd_pick",
     "add_read", "add_ctype", "add_unmarshal"}

\* C15: a handler that is at a step encoding JSON or writing its response does
\* not hold the mutex.
C15_NoLockWhileSerializing ==
    \A r \in Slots : pc[r] \in Serializing => mu # r

Listing == {"all_unlock", "all_marshal", "all_write", "done"}

\* C16: when getAllFishes has copied the map (it still holds the mutex) its list
\* is the store's contents at that instant, each record once; from then on
\* every record of the list is one that addNewFish stored whole, with its
\* identifier; and the body it answers with encodes that list, record by record.
C16_ListIsASnapshot ==
    \A r \in Slots :
        IsGetFishes(req[r]) =>
            /\ pc[r] = "all_unlock" =>
                   /\ mu = r
                   /\ Len(fishes[r].elems) = Cardinality(DOMAIN db)
                   /\ Elems(fishes[r].elems) = {db[k] : k \in DOMAIN db}
            /\ pc[r] \in Listing =>
                   \A f \in Elems(fishes[r].elems) :
                       f \in Elems(inserted) /\ f.ID # <<>>
            /\ pc[r] = "done" =>
                   /\ resp[r].status = StatusOK
                   /\ Len(resp[r].body) = 1
                   /\ resp[r].body[1].t \in {"null", "array"}
                   /\ Len(resp[r].body[1].v) = Len(fishes[r].elems)
                   /\ \A i \in 1..Len(fishes[r].elems) :
                          Decoded(resp[r].body[1].v[i]) = fishes[r].elems[i]

\* A list was copied while another slot's insert was in flight.
C16_Witness ==
    \E r, s \in Slots :
        /\ IsGetFishes(req[r])
        /\ pc[r] = "all_unlock"
        /\ Len(fishes[r].elems) = 1
        /\ pc[s] = "add_lock"

\* The identifier in the body of a POST, <<>> when it has none.
GivenId(q) == StrMember(q.body.members, "id")

\* C17: every key of the map is the ID of the record stored under it and is a
\* formatted clock reading; the identifier a POST body carries is neither a key
\* nor the ID of a stored record.
C17_KeyIsAssignedId ==
    /\ \A k \in DOMAIN db :
           /\ db[k].ID = k
           /\ k \in {FormatInt(c) : c \in ClockValues}
    /\ \A r \in Slots :
           (IsPostFishes(req[r]) /\ GivenId(req[r]) # <<>>) =>
               /\ GivenId(req[r]) \notin DOMAIN db
               /\ \A k \in DOMAIN db : db[k].ID # GivenId(req[r])

C17_Witness ==
    \E r \in Slots :
        /\ pc[r] = "done"
        /\ IsPostFishes(req[r])
        /\ GivenId(req[r]) # <<>>
        /\ \E k \in DOMAIN db : db[k].Name = Trout /\ db[k].ID = k

\* C18: no step removes a key from the map or changes the record stored under
\* a key.
C18_AppendOnly ==
    [][\A k \in DOMAIN db : k \in DOMAIN db' /\ db'[k] = db[k]]_vars

\* C19: a step that changes the map is the map assignment of addNewFish, taken
\* by a slot that serves a POST /fishes and holds the mutex.
C19_OnlyCreateChangesStore ==
    [][db' # db =>
         \E r \in Slots :
             /\ IsPostFishes(req[r])
             /\ pc[r] = "add_store"
             /\ pc'[r] = "add_return"
             /\ mu = r]_vars

\* A DELETE /fishes/{id} was answered with the record, which is still stored.
C19_Witness ==
    \E r \in Slots :
        /\ pc[r] = "done"
        /\ req[r].method = "DELETE"
        /\ Route(req[r].url.path) = "getFish"
        /\ resp[r].status = StatusOK
        /\ Segment(req[r]) \in DOMAIN db

GetFishLabels == {"get_lock", "get_lookup", "get_marshal", "get_write", "get_return"}

\* C20: for a GET under /fishes/, with or without a query string: a request
\* whose path is /fishes/random is never taken to the lookup by identifier, and
\* a request whose path is /fishes/{id} for a stored id has, at the end of
\* getFish, status 200 and that record as its body.
C20_DispatchOnPathOnly ==
    \A r \in Slots :
        (req[r].method = "GET" /\ Route(req[r].url.path) = "getFish") =>
            /\ req[r].url.path = FishesPath \o <<"/">> \o RandomSeg =>
                   pc[r] \notin GetFishLabels
            /\ (pc[r] = "get_return" /\ Segment(req[r]) \in DOMAIN db) =>
                   /\ resp[r].status = StatusOK
                   /\ Len(resp[r].body) = 1
                   /\ Decoded(resp[r].body[1]) = db[Segment(req[r])]

====
